---- MODULE Spec2Model ----
(***************************************************************************)
(* Insider-Terminal: the trade store of dashboard.py (load_data,           *)
(* save_data, deduplicate_trades, upload_trades, clean_data) and the       *)
(* filing pipeline of Scraper.py (extract_value_via_iteration,             *)
(* parse_form4_url, main).                                                 *)
(*                                                                         *)
(* Four specifications share the variables of this module:                 *)
(*   Spec      the store, one request handled at a time                    *)
(*   SpecConc  the store, two request handlers interleaved at their file   *)
(*             accesses (the WSGI server runs handlers on threads)         *)
(*   SpecParse parse_form4_url applied to one filing                       *)
(*   SpecMain  the loop of main over the filings of one day                *)
(***************************************************************************)
EXTENDS Integers, Sequences, FiniteSets, TLC

VARIABLES
    file,       \* content of DATA_FILE
    pre,        \* Spec: content of DATA_FILE before the last request
    req,        \* Spec: the last request handled
    resp,       \* Spec: the response to the last request
    repeated,   \* Spec: the last request repeated the successful one before it
    initStore,  \* SpecConc: content of DATA_FILE before the two requests
    handlers,   \* SpecConc: per request, where its handler is and its locals
    saved,      \* SpecConc: the arrays DATA_FILE held or is being given
    filing,     \* SpecParse: the filing behind the URL
    result,     \* SpecParse: what parse_form4_url did with it
    urls,       \* SpecMain: the filings of the index, in index order
    mainState,  \* SpecMain: the locals of main
    call,       \* SpecCalls: the function called and its input
    ret         \* SpecCalls: what the call returned or raised

vars == <<file, pre, req, resp, repeated, initStore, handlers, saved, filing, result, urls,
          mainState, call, ret>>

(***************************************************************************)
(* Bounds of the model.                                                    *)
(***************************************************************************)
MaxStore == 2      \* longest initial content of DATA_FILE
MaxBatch == 2      \* longest 'trades' list of an upload

(***************************************************************************)
(* JSON values as Python sees them after json.load / request.get_json.     *)
(***************************************************************************)
JInt(n)   == [t |-> "int",   n |-> n, s |-> ""]
JFloat(n) == [t |-> "float", n |-> n, s |-> ""]     \* the float n.0
JStr(s)   == [t |-> "str",   n |-> 0, s |-> s]
None      == [t |-> "null",  n |-> 0, s |-> ""]

\* str(v) of Python for the values above.
PyStr(v) ==
    CASE v.t = "int"   -> ToString(v.n)
      [] v.t = "float" -> ToString(v.n) \o ".0"
      [] v.t = "str"   -> v.s
      [] v.t = "null"  -> "None"

\* dict.get(key, default): a trade is a function from the keys it has.
Get(trade, key, default) == IF key \in DOMAIN trade THEN trade[key] ELSE default

\* An element of a 'trades' list that is not a JSON object (no .get method).
NonRecord == [nonrecord |-> JStr("x")]
IsRecord(e) == "nonrecord" \notin DOMAIN e

(***************************************************************************)
(* The trades the requests and the initial store are built from.  TA2 has  *)
(* another company_name than TA and its shares as the string "1000.0",     *)
(* which stringifies like the float of TA; TAi has shares as the integer   *)
(* 1000, which does not; TZ has shares 0.0 and TN no shares at all (the    *)
(* default 0.0 gives both the same key).                                   *)
(***************************************************************************)
TA  == [date |-> JStr("2024-01-02"), ticker |-> JStr("ACME"), filer |-> JStr("Doe"),
        code |-> JStr("P"), shares |-> JFloat(1000), price |-> JFloat(25),
        company_name |-> JStr("Acme")]
TA2 == [TA EXCEPT !.shares = JStr("1000.0"), !.company_name = JStr("Acme Corp")]
TAi == [TA EXCEPT !.shares = JInt(1000)]
TZ  == [TA EXCEPT !.shares = JFloat(0), !.code = JStr("M")]
TN  == [date |-> JStr("2024-01-02"), ticker |-> JStr("ACME"), filer |-> JStr("Doe"),
        code |-> JStr("M"), price |-> JFloat(25), company_name |-> JStr("Acme (no shares)")]

StoredTrades == {TA, TA2, TAi, TZ, TN}
\* The elements of the 'trades' lists that are uploaded.
UploadedTrades == {TA2, TN, NonRecord}

RECURSIVE SeqsUpTo(_, _)
SeqsUpTo(S, n) ==
    IF n = 0 THEN {<<>>}
    ELSE LET shorter == SeqsUpTo(S, n - 1)
         IN  shorter \cup {Append(q, x) : q \in {r \in shorter : Len(r) = n - 1}, x \in S}

Range(q) == {q[i] : i \in 1..Len(q)}

(***************************************************************************)
(* dashboard.py: the store.                                                *)
(***************************************************************************)
DASHBOARD_API_KEY == "k-configured"
NoHeader == "<no X-API-KEY header>"
ApiKeys == {DASHBOARD_API_KEY, "k-wrong", NoHeader}

\* The length of the text json.dump(data, f, indent=4) writes.
ValueLen(v) ==
    CASE v.t = "int"   -> Len(ToString(v.n))
      [] v.t = "float" -> Len(ToString(v.n)) + 2
      [] v.t = "str"   -> Len(v.s) + 2
      [] v.t = "null"  -> 4

RECURSIVE FieldsLen(_, _)
FieldsLen(trade, keys) ==
    IF keys = {} THEN 0
    ELSE LET k == CHOOSE x \in keys : TRUE
         IN  8 + (Len(k) + 2) + 2 + ValueLen(trade[k]) + FieldsLen(trade, keys \ {k})

RecordLen(trade) ==
    6 + FieldsLen(trade, DOMAIN trade) + 2 * (Cardinality(DOMAIN trade) - 1) + 6

RECURSIVE RecordsLen(_, _)
RecordsLen(data, i) ==
    IF i > Len(data) THEN 0 ELSE RecordLen(data[i]) + RecordsLen(data, i + 1)

JsonLen(data) ==
    IF data = <<>> THEN 2
    ELSE 2 + RecordsLen(data, 1) + 2 * (Len(data) - 1) + 2

\* DATA_FILE: absent, a JSON array of trades, empty, or other text that
\* json.load rejects; len is the length of the text in the file.
Missing == [state |-> "missing", data |-> <<>>, len |-> 0]
Emptied == [state |-> "empty",   data |-> <<>>, len |-> 0]
Garbled(n) == [state |-> "garbled", data |-> <<>>, len |-> n]
Written(data) == [state |-> "json", data |-> data, len |-> JsonLen(data)]

\* os.path.exists is false, or json.load raises JSONDecodeError: [].
load_data(f) == IF f.state = "json" THEN f.data ELSE <<>>

\* save_data, first half: open(DATA_FILE, 'w') truncates the file.
save_open(f) == Emptied

\* save_data, second half: json.dump and the close of the with-block write
\* the text of data (one write, for a text that fits the buffer of the file
\* object) from offset 0 of the file as it is by then.  Text that another
\* writer put there since the open is overwritten; when it is the longer
\* one its tail stays behind the text of data, and json.load rejects that.
save_write(f, data) ==
    IF JsonLen(data) >= f.len THEN Written(data) ELSE Garbled(f.len)

\* save_data with no other writer in between.
save_data(data) == save_write(save_open(Missing), data)

unique_key(trade) ==
    << Get(trade, "date", None), Get(trade, "ticker", None),
       Get(trade, "filer", None), Get(trade, "code", None),
       PyStr(Get(trade, "shares", JFloat(0))),
       PyStr(Get(trade, "price", JFloat(0))) >>

\* The loop of deduplicate_trades over trades[i..], unique being the values
\* of unique_trades in insertion order.  trade.get on an element that is no
\* dict raises AttributeError.
RECURSIVE dedup_loop(_, _, _)
dedup_loop(trades, i, unique) ==
    IF i > Len(trades) THEN [raised |-> FALSE, out |-> unique]
    ELSE IF ~IsRecord(trades[i]) THEN [raised |-> TRUE, out |-> <<>>]
    ELSE IF \E j \in 1..Len(unique) : unique_key(unique[j]) = unique_key(trades[i])
         THEN dedup_loop(trades, i + 1, unique)
         ELSE dedup_loop(trades, i + 1, Append(unique, trades[i]))

\* Mutant: every trade whose key occurs more than once is removed, the first
\* occurrence included.
deduplicate_drop_repeated(trades) ==
    IF \E i \in 1..Len(trades) : ~IsRecord(trades[i])
    THEN [raised |-> TRUE, out |-> <<>>]
    ELSE LET once(t) == Cardinality({i \in 1..Len(trades) :
                                        unique_key(trades[i]) = unique_key(t)}) = 1
         IN  [raised |-> FALSE, out |-> SelectSeq(trades, once)]

\* Mutant: unique_trades[unique_key] = trade without the membership test, so
\* the last trade of a key replaces the first one in its place.
RECURSIVE dedup_loop_last_wins(_, _, _)
dedup_loop_last_wins(trades, i, unique) ==
    IF i > Len(trades) THEN [raised |-> FALSE, out |-> unique]
    ELSE IF ~IsRecord(trades[i]) THEN [raised |-> TRUE, out |-> <<>>]
    ELSE IF \E j \in 1..Len(unique) : unique_key(unique[j]) = unique_key(trades[i])
         THEN dedup_loop_last_wins(trades, i + 1,
                  [j \in 1..Len(unique) |->
                      IF unique_key(unique[j]) = unique_key(trades[i])
                      THEN trades[i] ELSE unique[j]])
         ELSE dedup_loop_last_wins(trades, i + 1, Append(unique, trades[i]))

deduplicate_last_wins(trades) == dedup_loop_last_wins(trades, 1, <<>>)

\* Mutant: nothing is removed.
deduplicate_keep_all(trades) ==
    IF \E i \in 1..Len(trades) : ~IsRecord(trades[i])
    THEN [raised |-> TRUE, out |-> <<>>]
    ELSE [raised |-> FALSE, out |-> trades]

deduplicate_trades(trades) == dedup_loop(trades, 1, <<>>)

Response(status, message) == [status |-> status, message |-> message]
FrameworkPage == "<error page of the framework>"

\* Mutant: the key comparison is lost.
AuthorizedAnyKey(key) == TRUE

Authorized(key) == key = DASHBOARD_API_KEY

\* The body of an upload request.
Bodies ==
    {[kind |-> k, trades |-> <<>>] :
        k \in {"nonjson", "badjson", "notobject", "tradesnotlist"}}
    \cup {[kind |-> "list", trades |-> b] :
        b \in SeqsUpTo(UploadedTrades, MaxBatch)}

\* upload_trades up to load_data: the response that ends it early, or
\* status 0 to go on.
upload_reject(key, body) ==
    IF body.kind = "nonjson" THEN Response(400, "Missing JSON in request")
    ELSE IF body.kind = "badjson" THEN Response(400, FrameworkPage)
    ELSE IF ~Authorized(key) THEN Response(403, "Unauthorized: Invalid API Key")
    ELSE IF body.kind = "notobject" THEN Response(500, FrameworkPage)
    ELSE IF body.kind = "tradesnotlist"
         THEN Response(400, "Invalid data format: 'trades' must be a list")
    ELSE Response(0, "")

\* Mutant: combined_trades = new_trades + existing_trades.
upload_merge_new_first(existing_trades, body) ==
    LET combined_trades == body.trades \o existing_trades
        final == deduplicate_trades(combined_trades)
    IN  IF final.raised
        THEN [save |-> FALSE, data |-> <<>>, resp |-> Response(500, FrameworkPage)]
        ELSE [save |-> TRUE, data |-> final.out,
              resp |-> Response(200, "Successfully processed.")]

\* upload_trades from load_data on, given what load_data returned.
upload_merge(existing_trades, body) ==
    LET combined_trades == existing_trades \o body.trades
        final == deduplicate_trades(combined_trades)
    IN  IF final.raised
        THEN [save |-> FALSE, data |-> <<>>, resp |-> Response(500, FrameworkPage)]
        ELSE [save |-> TRUE, data |-> final.out,
              resp |-> Response(200, "Successfully processed.")]

upload_trades(f, key, body) ==
    LET early == upload_reject(key, body)
        m == upload_merge(load_data(f), body)
    IN  IF early.status # 0 THEN [file |-> f, resp |-> early]
        ELSE [file |-> IF m.save THEN save_data(m.data) ELSE f, resp |-> m.resp]

clean_reject(key) ==
    IF ~Authorized(key) THEN Response(403, "Unauthorized: Invalid API Key")
    ELSE Response(0, "")

\* Mutant: the cleanup saves what it loaded, without deduplicate_trades.
clean_merge_no_dedup(existing_trades) ==
    IF existing_trades = <<>>
    THEN [save |-> FALSE, data |-> <<>>,
          resp |-> Response(200, "Data file is already empty or unreadable.")]
    ELSE [save |-> TRUE, data |-> existing_trades,
          resp |-> Response(200, "Cleanup successful!")]

clean_merge(existing_trades) ==
    LET cleaned == deduplicate_trades(existing_trades)
    IN  IF existing_trades = <<>>
        THEN [save |-> FALSE, data |-> <<>>,
              resp |-> Response(200, "Data file is already empty or unreadable.")]
        ELSE IF cleaned.raised
        THEN [save |-> FALSE, data |-> <<>>, resp |-> Response(500, FrameworkPage)]
        ELSE [save |-> TRUE, data |-> cleaned.out,
              resp |-> Response(200, "Cleanup successful!")]

clean_data(f, key) ==
    LET early == clean_reject(key)
        m == clean_merge(load_data(f))
    IN  IF early.status # 0 THEN [file |-> f, resp |-> early]
        ELSE [file |-> IF m.save THEN save_data(m.data) ELSE f, resp |-> m.resp]

----
(***************************************************************************)
(* Spec: requests handled one at a time.                                   *)
(***************************************************************************)
NoRequest == [op |-> "none", key |-> NoHeader, body |-> [kind |-> "nonjson", trades |-> <<>>]]
NoResponse == Response(0, "")

IdleHandlers == [r \in {} |-> 0]
NoFiling == [fault |-> "none", metadata |-> <<>>, transactions |-> <<>>]
NoResult == [state |-> "pending", trades |-> <<>>, error |-> "none"]
NoCall ==
    [fn |-> "none", response |-> [exception |-> "none", status |-> 0, lines |-> <<>>],
     xml_text |-> <<>>, field |-> [present |-> FALSE, values |-> <<>>]]
NoReturn == [state |-> "pending", value |-> <<>>, exception |-> "none"]
NoMain == [pc |-> "off", urls |-> <<>>, i |-> 0, parsed |-> <<>>, all_trades |-> <<>>,
           transaction_code_counts |-> <<>>, total_trades_count_all |-> 0,
           total_value_all |-> 0, mega_trade_count |-> 0, mega_trade_total_value |-> 0,
           uploaded |-> <<>>, events |-> <<>>]

StoreInit ==
    /\ file \in {Missing, Garbled(1)} \cup {Written(d) : d \in SeqsUpTo(StoredTrades, MaxStore)}
    /\ pre = file
    /\ req = NoRequest
    /\ resp = NoResponse
    /\ repeated = FALSE
    /\ initStore = Missing /\ handlers = IdleHandlers /\ saved = {}
    /\ filing = NoFiling /\ result = NoResult
    /\ urls = <<>> /\ mainState = NoMain
    /\ call = NoCall /\ ret = NoReturn

UploadTrades ==
    \E key \in ApiKeys, body \in Bodies :
        LET o == upload_trades(file, key, body)
        IN  /\ pre' = file
            /\ req' = [op |-> "upload", key |-> key, body |-> body]
            /\ file' = o.file
            /\ resp' = o.resp
            /\ repeated' = (/\ req.op = "upload" /\ req.key = key /\ req.body = body
                            /\ resp.status = 200 /\ o.resp.status = 200)
            /\ UNCHANGED <<initStore, handlers, saved, filing, result, urls, mainState, call, ret>>

CleanData ==
    \E key \in ApiKeys :
        LET o == clean_data(file, key)
        IN  /\ pre' = file
            /\ req' = [op |-> "clean", key |-> key, body |-> NoRequest.body]
            /\ file' = o.file
            /\ resp' = o.resp
            /\ repeated' = (/\ req.op = "clean" /\ req.key = key
                            /\ resp.status = 200 /\ o.resp.status = 200)
            /\ UNCHANGED <<initStore, handlers, saved, filing, result, urls, mainState, call, ret>>

Next == UploadTrades \/ CleanData

Spec == StoreInit /\ [][Next]_vars

----
(***************************************************************************)
(* SpecConc: two requests handled on two threads.  A handler touches the   *)
(* file in load_data, in the open of save_data and in the write of         *)
(* save_data; no lock is taken around them, so the handlers interleave at  *)
(* these three steps.                                                      *)
(***************************************************************************)
MaxConcStore == 1     \* longest initial content of DATA_FILE under SpecConc
MaxConcBatch == 1     \* longest 'trades' list under SpecConc

Requests == {"r1", "r2"}
ConcStored == {TA, TZ}
ConcUploaded == {TAi, TN}
ConcBodies ==
    {[kind |-> "list", trades |-> b] : b \in SeqsUpTo(ConcUploaded, MaxConcBatch)}

Idle == [pc |-> "idle", op |-> "none", body |-> NoRequest.body, torn |-> FALSE,
         data |-> <<>>, status |-> 0]

ConcInit ==
    /\ file \in {Missing} \cup {Written(d) : d \in SeqsUpTo(ConcStored, MaxConcStore)}
    /\ initStore = file
    /\ handlers = [r \in Requests |-> Idle]
    /\ saved = {load_data(file)}
    /\ pre = Missing /\ req = NoRequest /\ resp = NoResponse /\ repeated = FALSE
    /\ filing = NoFiling /\ result = NoResult
    /\ urls = <<>> /\ mainState = NoMain
    /\ call = NoCall /\ ret = NoReturn

\* The handler up to and including its load_data: upload_trades lines
\* 113-138, clean_data lines 158-172, dashboard line 191.
Begin(r) ==
    /\ handlers[r].pc = "idle"
    /\ \E op \in {"upload", "clean", "query"}, key \in ApiKeys, body \in ConcBodies :
          LET early == IF op = "upload" THEN upload_reject(key, body)
                       ELSE IF op = "clean" THEN clean_reject(key)
                       ELSE Response(0, "")
              existing_trades == load_data(file)
              m == IF op = "upload" THEN upload_merge(existing_trades, body)
                   ELSE IF op = "clean" THEN clean_merge(existing_trades)
                   ELSE [save |-> FALSE, data |-> <<>>, resp |-> Response(200, "page")]
              loads == early.status = 0
          IN  /\ (op # "upload") => body = [kind |-> "list", trades |-> <<>>]
              /\ handlers' = [handlers EXCEPT ![r] =
                    [pc |-> IF loads /\ m.save THEN "save" ELSE "done",
                     op |-> op, body |-> body,
                     torn |-> loads /\ existing_trades \notin saved,
                     data |-> IF loads /\ m.save THEN m.data ELSE <<>>,
                     status |-> IF loads THEN m.resp.status ELSE early.status]]
    /\ UNCHANGED <<file, initStore, saved, pre, req, resp, repeated, filing, result, urls, mainState, call, ret>>

\* save_data line 58: open(DATA_FILE, 'w').
SaveOpen(r) ==
    /\ handlers[r].pc = "save"
    /\ file' = save_open(file)
    /\ saved' = saved \cup {handlers[r].data}
    /\ handlers' = [handlers EXCEPT ![r].pc = "write"]
    /\ UNCHANGED <<initStore, pre, req, resp, repeated, filing, result, urls, mainState, call, ret>>

\* save_data lines 59-60: json.dump and the close of the file.
SaveWrite(r) ==
    /\ handlers[r].pc = "write"
    /\ file' = save_write(file, handlers[r].data)
    /\ handlers' = [handlers EXCEPT ![r].pc = "done"]
    /\ UNCHANGED <<initStore, saved, pre, req, resp, repeated, filing, result, urls, mainState, call, ret>>

ConcNext == \E r \in Requests : Begin(r) \/ SaveOpen(r) \/ SaveWrite(r)

SpecConc == ConcInit /\ [][ConcNext]_vars

----
(***************************************************************************)
(* Scraper.py: values, texts and the nested-value lookup.                  *)
(*                                                                         *)
(* A Python value of the parser is None, a float that is a whole number,   *)
(* or the float nan.  A text is a sequence of characters.                  *)
(***************************************************************************)
PyNone == [k |-> "None", n |-> 0]
NaN == [k |-> "nan", n |-> 0]
Float(n) == [k |-> "float", n |-> n]

MIN_TRADE_VALUE == 1000000
MEGA_TRADE_THRESHOLD == 10000000
\* Mutant: award grants (code A) are taken for target codes too.
TARGET_CODES_with_A == <<"P", "S", "M", "X", "V", "A">>

TARGET_CODES == <<"P", "S", "M", "X", "V">>
VALUE_CODES == <<"P", "S">>

\* code in LIST, for a text and a list of one-character strings.
InList(text, list) == \E i \in 1..Len(list) : text = <<list[i]>>

Digits == {"0", "1", "2", "3", "4", "5", "6", "7", "8", "9"}
DigitValue(c) ==
    CASE c = "0" -> 0 [] c = "1" -> 1 [] c = "2" -> 2 [] c = "3" -> 3 [] c = "4" -> 4
      [] c = "5" -> 5 [] c = "6" -> 6 [] c = "7" -> 7 [] c = "8" -> 8 [] c = "9" -> 9

\* str.strip, str.replace(',', '') and str.upper on texts.
RECURSIVE LStrip(_)
LStrip(text) ==
    IF text # <<>> /\ Head(text) = " " THEN LStrip(Tail(text)) ELSE text
RECURSIVE RStrip(_)
RStrip(text) ==
    IF text # <<>> /\ text[Len(text)] = " "
    THEN RStrip(SubSeq(text, 1, Len(text) - 1)) ELSE text
Strip(text) == RStrip(LStrip(text))
RemoveCommas(text) == SelectSeq(text, LAMBDA c : c # ",")
UpperChar(c) ==
    CASE c = "p" -> "P" [] c = "s" -> "S" [] c = "m" -> "M" [] c = "x" -> "X"
      [] c = "v" -> "V" [] c = "a" -> "A" [] c = "n" -> "N" [] OTHER -> c
Upper(text) == [i \in 1..Len(text) |-> UpperChar(text[i])]

RECURSIVE DigitsToInt(_)
DigitsToInt(text) ==
    IF text = <<>> THEN 0
    ELSE 10 * DigitsToInt(SubSeq(text, 1, Len(text) - 1)) + DigitValue(text[Len(text)])

\* float(text) for texts of digits, commas, blanks and letters: a whole
\* number, nan, or ValueError.
float(text) ==
    IF text # <<>> /\ \A i \in 1..Len(text) : text[i] \in Digits
    THEN [raised |-> FALSE, value |-> Float(DigitsToInt(text))]
    ELSE IF text = <<"n", "a", "n">> THEN [raised |-> FALSE, value |-> NaN]
    ELSE [raised |-> TRUE, value |-> PyNone]

\* The part of a transaction element that a lookup walks: whether a
\* descendant with the container's tag suffix exists, and the texts of the
\* descendants of the first such container whose tag ends with 'value', in
\* document order (<<>> for an element without text).
NoContainer == [present |-> FALSE, values |-> <<>>]
Container(values) == [present |-> TRUE, values |-> values]

extract_value_via_iteration(field) ==
    LET found == {i \in 1..Len(field.values) : field.values[i] # <<>>}
        first == CHOOSE i \in found : \A j \in found : i <= j
        value == IF found = {} THEN <<>> ELSE Strip(field.values[first])
        parsed == float(Strip(RemoveCommas(value)))
    IN  IF ~field.present THEN PyNone
        ELSE IF value # <<>> /\ ~parsed.raised THEN parsed.value
        ELSE Float(0)

\* shares * price, shares == 0.0 and value >= MIN_TRADE_VALUE of Python.
Multiply(x, y) ==
    IF x.k = "None" \/ y.k = "None" THEN [raised |-> TRUE, value |-> PyNone]
    ELSE IF x.k = "nan" \/ y.k = "nan" THEN [raised |-> FALSE, value |-> NaN]
    ELSE [raised |-> FALSE, value |-> Float(x.n * y.n)]
IsZero(x) == x.k = "float" /\ x.n = 0
AtLeast(x, n) == x.k = "float" /\ x.n >= n

----
(***************************************************************************)
(* Scraper.py: parse_form4_url.                                            *)
(*                                                                         *)
(* A filing is what the steps of parse_form4_url meet: fault names the     *)
(* first step that fails before the transactions are read ("download":     *)
(* requests.get or raise_for_status raises; "nostart": the text has no     *)
(* <ownershipDocument; "malformed": ET.fromstring rejects the text;        *)
(* "flagNoText": there is no rptOwnerTitle and a relationship flag element *)
(* has no text, so .text.strip() raises AttributeError), and transactions  *)
(* are the nonDerivativeTransaction and derivativeTransaction elements in  *)
(* the order of line 240.  A transaction has the text of its               *)
(* transactionCode element (<<>> when there is none, or none with text)    *)
(* and its transactionShares and transactionPricePerShare containers.      *)
(***************************************************************************)
MaxTransactions == 2     \* most transactions of a filing

NA == <<"N", "/", "A">>

\* Mutant: the catch-all clause is missing.
except_clauses_no_catch_all == {"ValueError", "ParseError"}

\* The except clauses of the second try block (lines 295-306), and which
\* exception classes an except clause catches.
except_clauses == {"ValueError", "ParseError", "Exception"}
Catches(clause, exception) == clause = exception \/ clause = "Exception"
Caught(exception) == \E clause \in except_clauses : Catches(clause, exception)

\* Lines 242-248 and 256: the code of a transaction.
transaction_code(transaction) ==
    IF transaction.code = <<>> THEN NA ELSE Upper(Strip(transaction.code))

\* Mutant: the value threshold is not applied.
keep_every_trade(trade) == TRUE

\* Lines 289-293: the minimum value filter.
keep_trade(trade) ==
    \/ trade.is_value_trade /\ AtLeast(trade.value, MIN_TRADE_VALUE)
    \/ ~trade.is_value_trade

\* Lines 240-293: the loop over transactions[i..], trades being the list
\* built so far.  An exception ends the loop with the list as it is.
RECURSIVE transaction_loop(_, _, _, _)
transaction_loop(transactions, i, trades, meta) ==
    IF i > Len(transactions) THEN [trades |-> trades, error |-> "none"]
    ELSE
        LET transaction == transactions[i]
            code == transaction_code(transaction)
            shares == extract_value_via_iteration(transaction.shares)
            price == extract_value_via_iteration(transaction.price)
            value == Multiply(shares, price)
            trade == [code |-> code, ticker |-> meta.issuer_ticker,
                      shares |-> shares, price |-> price, value |-> value.value,
                      company_name |-> meta.issuer_name, filer |-> meta.filer_name,
                      person_title |-> meta.filer_relationship,
                      is_value_trade |-> InList(code, VALUE_CODES)]
        IN  IF ~InList(code, TARGET_CODES)
            THEN transaction_loop(transactions, i + 1, trades, meta)
            ELSE IF IsZero(shares) THEN transaction_loop(transactions, i + 1, trades, meta)
            ELSE IF value.raised THEN [trades |-> trades, error |-> "TypeError"]
            ELSE IF keep_trade(trade)
                 THEN transaction_loop(transactions, i + 1, Append(trades, trade), meta)
                 ELSE transaction_loop(transactions, i + 1, trades, meta)

\* An element of the filing with a metadata tag, in document order: the
\* tag it ends with and its text (<<>> when it has none).
Element(tag, text) == [tag |-> tag, text |-> text]
UNKNOWN == <<"U", "N", "K", "N", "O", "W", "N">>
Other == <<"O", "t", "h", "e", "r">>

\* Lines 185-188: the metadata before the scan.
NoMetadata ==
    [issuer_name |-> UNKNOWN, issuer_ticker |-> NA, filer_name |-> UNKNOWN,
     filer_relationship |-> NA]

\* Lines 191-200: the scan of root.iter() over elements[i..], m being the
\* four locals.
RECURSIVE metadata_scan(_, _, _)
metadata_scan(elements, i, m) ==
    IF i > Len(elements) THEN m
    ELSE
        LET element == elements[i]
            text == Strip(element.text)
        IN  IF element.text = <<>> THEN metadata_scan(elements, i + 1, m)
            ELSE metadata_scan(elements, i + 1,
                    CASE element.tag = "issuerName" -> [m EXCEPT !.issuer_name = text]
                      [] element.tag = "issuerTradingSymbol" ->
                            [m EXCEPT !.issuer_ticker = Upper(text)]
                      [] element.tag = "rptOwnerName" -> [m EXCEPT !.filer_name = text]
                      [] element.tag = "rptOwnerTitle" ->
                            [m EXCEPT !.filer_relationship = text]
                      [] OTHER -> m)

Returned(trades, error) == [state |-> "returned", trades |-> trades, error |-> error]
Raised(error) == [state |-> "raised", trades |-> <<>>, error |-> error]

parse_form4_url(f) ==
    LET scanned == metadata_scan(f.metadata, 1, NoMetadata)
        untitled == scanned.filer_relationship \in {NA, <<>>}
        meta == IF untitled THEN [scanned EXCEPT !.filer_relationship = Other]
                ELSE scanned
        loop == transaction_loop(f.transactions, 1, <<>>, meta)
        flagError == f.fault = "flagNoText" /\ untitled
        error == CASE f.fault = "nostart"    -> "ValueError"
                   [] f.fault = "malformed"  -> "ParseError"
                   [] flagError              -> "AttributeError"
                   [] OTHER                  -> loop.error
        trades == IF f.fault \in {"none", "flagNoText"} /\ ~flagError
                  THEN loop.trades ELSE <<>>
    IN  IF f.fault = "download" THEN Returned(<<>>, "RequestException")
        ELSE IF error = "none" \/ Caught(error) THEN Returned(trades, error)
        ELSE Raised(error)

\* Texts of the filings.
Text1000 == <<"1", ",", "0", "0", "0">>
Text40000 == <<" ", "4", "0", "0", "0", "0">>
Text0 == <<"0">>
Text25 == <<"2", "5">>
TextNan == <<"n", "a", "n">>
TextX == <<"x">>

Transaction(code, shares, price) == [code |-> code, shares |-> shares, price |-> price]

Transactions ==
    {Transaction(c, Container(<<sh>>), pr) :
        c \in {<<"P">>, <<"s", " ">>, <<"M">>, <<"A">>, <<>>},
        sh \in {Text1000, Text40000},
        pr \in {Container(<<Text25>>), NoContainer}}
    \cup {Transaction(<<"M">>, Container(<<Text0>>), Container(<<Text25>>)),
          Transaction(<<"v">>, Container(<<<<>>, Text1000>>), Container(<<>>)),
          Transaction(<<"X">>, NoContainer, Container(<<Text25>>)),
          Transaction(<<"P">>, Container(<<TextNan>>), Container(<<Text25>>)),
          Transaction(<<"M">>, Container(<<TextNan>>), Container(<<TextX>>)),
          Transaction(<<"P">>, Container(<<Text40000>>), Container(<<Text1000>>)),
          Transaction(<<"S">>, Container(<<TextX>>), Container(<<Text25>>))}

Faults == {"none", "download", "nostart", "malformed", "flagNoText"}

\* Metadata of the filings: none, one element of each tag, and several
\* elements of a tag with different texts.
MetadataOnce ==
    <<Element("issuerName", <<"a">>), Element("issuerTradingSymbol", <<"a", "x">>),
      Element("rptOwnerName", <<"p">>), Element("rptOwnerTitle", <<"v", "p">>)>>
MetadataTwice ==
    MetadataOnce \o
    <<Element("issuerName", <<"m", " ">>), Element("issuerTradingSymbol", <<"n", "v">>),
      Element("rptOwnerName", <<"s">>), Element("rptOwnerTitle", <<"x">>)>>
MetadataBlankTitle ==
    <<Element("issuerTradingSymbol", <<"a", "x">>), Element("rptOwnerTitle", <<"v", "p">>),
      Element("issuerTradingSymbol", <<>>), Element("rptOwnerTitle", <<" ">>)>>
MetadataLists == {<<>>, MetadataOnce, MetadataTwice, MetadataBlankTitle}

ParseInit ==
    /\ filing \in {[fault |-> x, metadata |-> m, transactions |-> t] :
                      x \in Faults, m \in MetadataLists,
                      t \in SeqsUpTo(Transactions, MaxTransactions)}
    /\ result = NoResult
    /\ file = Missing /\ pre = Missing /\ req = NoRequest /\ resp = NoResponse
    /\ repeated = FALSE
    /\ initStore = Missing /\ handlers = IdleHandlers /\ saved = {}
    /\ urls = <<>> /\ mainState = NoMain
    /\ call = NoCall /\ ret = NoReturn

ParseForm4Url ==
    /\ result.state = "pending"
    /\ result' = parse_form4_url(filing)
    /\ UNCHANGED <<filing, file, pre, req, resp, repeated, initStore, handlers, saved,
                   urls, mainState, call, ret>>

ParseNext == ParseForm4Url

SpecParse == ParseInit /\ [][ParseNext]_vars

----
(***************************************************************************)
(* Scraper.py: main.  urls holds the filings the index of the day lists,   *)
(* each URL standing for the filing behind it.                             *)
(***************************************************************************)
MaxUrls == 2     \* most filings of an index

FilingAtThreshold ==
    [fault |-> "none", metadata |-> MetadataOnce,
     transactions |-> <<Transaction(<<"P">>, Container(<<Text40000>>), Container(<<Text25>>))>>]
FilingMega ==
    [fault |-> "none", metadata |-> MetadataOnce,
     transactions |-> <<Transaction(<<"P">>, Container(<<Text40000>>), Container(<<Text1000>>)),
                        Transaction(<<"M">>, Container(<<Text1000>>), Container(<<Text25>>))>>]
FilingNoDownload == [FilingAtThreshold EXCEPT !.fault = "download"]
FilingNoStart == [FilingMega EXCEPT !.fault = "nostart"]
FilingNoPrice ==
    [fault |-> "none", metadata |-> MetadataOnce,
     transactions |-> <<Transaction(<<"M">>, Container(<<Text1000>>), Container(<<Text25>>)),
                        Transaction(<<"M">>, Container(<<Text1000>>), NoContainer)>>]

FilingNonCashMega ==
    [fault |-> "none", metadata |-> MetadataTwice,
     transactions |-> <<Transaction(<<"X">>, Container(<<Text40000>>), Container(<<Text1000>>)),
                        Transaction(<<"S">>, Container(<<Text40000>>), Container(<<Text1000>>))>>]

MainFilings ==
    {FilingAtThreshold, FilingMega, FilingNoDownload, FilingNoStart, FilingNoPrice,
     FilingNonCashMega}

MainInit ==
    /\ urls \in SeqsUpTo(MainFilings, MaxUrls)
    /\ mainState = [NoMain EXCEPT !.pc = "index"]
    /\ call = NoCall /\ ret = NoReturn
    /\ filing = NoFiling /\ result = NoResult
    /\ file = Missing /\ pre = Missing /\ req = NoRequest /\ resp = NoResponse
    /\ repeated = FALSE
    /\ initStore = Missing /\ handlers = IdleHandlers /\ saved = {}

\* Line 403: get_form4_urls_from_index returns the URLs of the index, or []
\* when the download of the index fails.
GetForm4Urls ==
    /\ mainState.pc = "index"
    /\ \E found \in {urls, <<>>} :
          mainState' = [mainState EXCEPT
              !.urls = found, !.i = 1,
              !.pc = IF found = <<>> THEN "upload" ELSE "loop"]
    /\ UNCHANGED <<urls, filing, result, file, pre, req, resp, repeated, initStore,
                   handlers, saved, call, ret>>

\* Mutant: every trade at or over MEGA_TRADE_THRESHOLD counts as a mega trade,
\* a value trade or not.
RECURSIVE accumulate_mega_any_trade(_, _, _)
accumulate_mega_any_trade(m, trades, j) ==
    IF j > Len(trades) THEN m
    ELSE
        LET trade == trades[j]
            counts == m.transaction_code_counts
            seen == {counts[x][1] : x \in 1..Len(counts)}
            counted ==
                IF trade.code \in seen
                THEN [x \in 1..Len(counts) |->
                        IF counts[x][1] = trade.code
                        THEN <<trade.code, counts[x][2] + 1>> ELSE counts[x]]
                ELSE Append(counts, <<trade.code, 1>>)
            mega == AtLeast(trade.value, MEGA_TRADE_THRESHOLD)
        IN  accumulate_mega_any_trade(
                [m EXCEPT
                    !.all_trades = Append(@, trade),
                    !.transaction_code_counts = counted,
                    !.total_trades_count_all = @ + 1,
                    !.total_value_all = IF trade.is_value_trade THEN @ + trade.value.n ELSE @,
                    !.mega_trade_count = IF mega THEN @ + 1 ELSE @,
                    !.mega_trade_total_value = IF mega THEN @ + trade.value.n ELSE @],
                trades, j + 1)

\* Lines 411-423: the inner loop over trades[j..], m being the locals of main.
RECURSIVE accumulate(_, _, _)
accumulate(m, trades, j) ==
    IF j > Len(trades) THEN m
    ELSE
        LET trade == trades[j]
            counts == m.transaction_code_counts
            seen == {counts[x][1] : x \in 1..Len(counts)}
            counted ==
                IF trade.code \in seen
                THEN [x \in 1..Len(counts) |->
                        IF counts[x][1] = trade.code
                        THEN <<trade.code, counts[x][2] + 1>> ELSE counts[x]]
                ELSE Append(counts, <<trade.code, 1>>)
            mega == trade.is_value_trade /\ AtLeast(trade.value, MEGA_TRADE_THRESHOLD)
        IN  accumulate(
                [m EXCEPT
                    !.all_trades = Append(@, trade),
                    !.transaction_code_counts = counted,
                    !.total_trades_count_all = @ + 1,
                    !.total_value_all = IF trade.is_value_trade THEN @ + trade.value.n ELSE @,
                    !.mega_trade_count = IF mega THEN @ + 1 ELSE @,
                    !.mega_trade_total_value = IF mega THEN @ + trade.value.n ELSE @],
                trades, j + 1)

REQUEST_DELAY == 15     \* hundredths of a second

Event(kind, i, delay) == [kind |-> kind, filing |-> i, delay |-> delay]

\* Mutant: the download is not preceded by the delay.
request_events_no_delay(f, i) ==
    <<Event("get", i, 0), Event(IF f.fault = "download" THEN "failed" ELSE "response", i, 0)>>

\* Lines 169-178 of parse_form4_url, called on the i-th filing: time.sleep,
\* then requests.get, which returns the response or raises.
request_events(f, i) ==
    <<Event("sleep", i, REQUEST_DELAY), Event("get", i, 0),
      Event(IF f.fault = "download" THEN "failed" ELSE "response", i, 0)>>

\* The call of line 409 on each filing main can be handed, evaluated once.
parse_calls == [f \in MainFilings |-> parse_form4_url(f)]

\* Lines 406-423: one turn of the loop over urls, on the locals m of main.
\* An exception that leaves parse_form4_url leaves main.
loop_body(m) ==
    LET r == parse_calls[m.urls[m.i]]
        logged == [m EXCEPT !.parsed = Append(@, m.i),
                            !.events = @ \o request_events(m.urls[m.i], m.i)]
        counted == accumulate(logged, r.trades, 1)
    IN  IF r.state = "raised" THEN [logged EXCEPT !.pc = "crashed"]
        ELSE [counted EXCEPT !.i = @ + 1,
                             !.pc = IF m.i + 1 > Len(m.urls) THEN "upload" ELSE "loop"]

ProcessFiling ==
    /\ mainState.pc = "loop"
    /\ mainState' = loop_body(mainState)
    /\ UNCHANGED <<urls, filing, result, file, pre, req, resp, repeated, initStore,
                   handlers, saved, call, ret>>

\* Lines 430-437: summary_data and upload_trades_to_dashboard, which catches
\* the failure of its request.
Upload ==
    /\ mainState.pc = "upload"
    /\ mainState' = [mainState EXCEPT
           !.pc = "done",
           !.uploaded = <<[trades |-> mainState.all_trades,
                           summary |-> [mega_trade_count |-> mainState.mega_trade_count,
                                        mega_trade_total_value |->
                                            mainState.mega_trade_total_value,
                                        min_trade_value |-> MIN_TRADE_VALUE]]>>]
    /\ UNCHANGED <<urls, filing, result, file, pre, req, resp, repeated, initStore,
                   handlers, saved, call, ret>>

MainNext == GetForm4Urls \/ ProcessFiling \/ Upload

SpecMain == MainInit /\ [][MainNext]_vars

\* main is one thread that runs until it returns: a step that can be taken
\* is taken.
SpecMainFair == SpecMain /\ WF_vars(MainNext)

----
(***************************************************************************)
(* Scraper.py: get_form4_urls_from_index, clean_and_extract_xml and        *)
(* extract_value_via_iteration, each called on its own (SpecCalls).        *)
(***************************************************************************)
MaxLines == 2      \* most lines of an index
MaxTokens == 3     \* most tokens of a downloaded text
MaxValues == 2     \* most 'value' descendants of a container

CallReturned(value) == [state |-> "returned", value |-> value, exception |-> "none"]
CallRaised(exception) == [state |-> "raised", value |-> <<>>, exception |-> exception]

\* str.split('|') of text[i..], field being the field under way.
RECURSIVE split(_, _, _)
split(text, i, field) ==
    IF i > Len(text) THEN <<field>>
    ELSE IF text[i] = "|" THEN <<field>> \o split(text, i + 1, <<>>)
    ELSE split(text, i + 1, Append(field, text[i]))

\* Line 94: the URL of a filing, the prefix and the path.
FullUrl(file_path) == [prefix |-> "https://www.sec.gov/Archives/", file_path |-> file_path]

\* Lines 90-95: what one line of the index adds to form4_urls.
index_line(line) ==
    LET parts == split(line, 1, <<>>)
    IN  IF Len(parts) >= 3 /\ parts[3] = <<"4">>
        THEN IF Len(parts) = 5 THEN <<FullUrl(parts[5])>> ELSE <<>>
        ELSE <<>>

\* Lines 88-95: the loop over lines[i..] of response.text.splitlines().
RECURSIVE index_loop(_, _)
index_loop(lines, i) ==
    IF i > Len(lines) THEN <<>>
    ELSE index_line(lines[i]) \o index_loop(lines, i + 1)

\* Mutant: only HTTP error statuses are handled.
index_except_clauses_http_only == {"HTTPError"}

\* Lines 73 and 80: the except clauses of the download of the index.
\* HTTPError, ConnectionError and Timeout are RequestExceptions.
index_except_clauses == {"HTTPError", "RequestException"}
IndexCaught(exception) ==
    \/ exception \in index_except_clauses
    \/ "RequestException" \in index_except_clauses

\* The download of the index: the exception of requests.get or
\* raise_for_status ("none" when there is none), the status of the response
\* and the lines of its text.
IndexResponse(exception, status, lines) ==
    [exception |-> exception, status |-> status, lines |-> lines]

get_form4_urls_from_index(response) ==
    IF response.exception = "none" THEN CallReturned(index_loop(response.lines, 1))
    ELSE IF IndexCaught(response.exception) THEN CallReturned(<<>>)
    ELSE CallRaised(response.exception)

\* Lines of an index: fields company, name, form type, date, path.
Line(fields) ==
    LET RECURSIVE join(_)
        join(i) == IF i > Len(fields) THEN <<>> ELSE <<"|">> \o fields[i] \o join(i + 1)
    IN  IF fields = <<>> THEN <<>> ELSE fields[1] \o join(2)
PathA == <<"e", "/", "a", ".", "t", "x", "t">>
PathB == <<"e", "/", "b", ".", "t", "x", "t">>
IndexLines ==
    {Line(<<<<"1">>, <<"c">>, <<"4">>, <<"d">>, PathA>>),
     Line(<<<<"2">>, <<"c">>, <<"4">>, <<"d">>, PathB>>),
     Line(<<<<"3">>, <<"c">>, <<"1", "0", "-", "K">>, <<"d">>, PathA>>),
     Line(<<<<"4">>, <<"c">>, <<"4", "/", "A">>, <<"d">>, PathA>>),
     Line(<<<<"5">>, <<"c">>, <<"4">>, <<"d">>, PathA, <<"x">>>>),
     Line(<<<<"6">>, <<"c">>, <<"4">>, <<"d">>>>),
     Line(<<<<"7">>, <<"c">>, <<"4">>>>),
     Line(<<<<"-", "-", "-">>>>),
     <<>>}

IndexResponses ==
    {IndexResponse("none", 200, lines) : lines \in SeqsUpTo(IndexLines, MaxLines)}
    \cup {IndexResponse("HTTPError", 404, <<>>), IndexResponse("HTTPError", 500, <<>>),
          IndexResponse("ConnectionError", 0, <<>>), IndexResponse("Timeout", 0, <<>>)}

\* The markers of clean_and_extract_xml (lines 136-137) and what else a
\* downloaded text is made of: an XML declaration, a blank, other text.  A
\* text is a sequence of these; no marker is part of another one.
START_TAG == "<ownershipDocument"
END_TAG == "</ownershipDocument>"
Tokens ==
    {START_TAG, "<OWNERSHIPDOCUMENT", END_TAG, "</OwnershipDocument>",
     "<?xml version='1.0'?>", " ", "x"}

\* re.IGNORECASE on the markers.
LowerToken(token) ==
    CASE token = "<OWNERSHIPDOCUMENT" -> START_TAG
      [] token = "</OwnershipDocument>" -> END_TAG
      [] OTHER -> token

\* re.search(marker, text, re.IGNORECASE): the place of the first match, 0
\* when there is none.
search(marker, text) ==
    LET matches == {i \in 1..Len(text) : LowerToken(text[i]) = marker}
    IN  IF matches = {} THEN 0 ELSE CHOOSE i \in matches : \A j \in matches : i <= j

\* Line 156 and line 158: re.sub of the declarations, and strip().
RemoveDeclarations(text) == SelectSeq(text, LAMBDA token : token # "<?xml version='1.0'?>")

clean_and_extract_xml(xml_text) ==
    LET start_match == search(START_TAG, xml_text)
        end_match == search(END_TAG, xml_text)
        cleaned_xml == IF end_match # 0 THEN SubSeq(xml_text, start_match, end_match)
                       ELSE SubSeq(xml_text, start_match, Len(xml_text))
    IN  IF start_match = 0 THEN CallRaised("ValueError")
        ELSE CallReturned(Strip(RemoveDeclarations(cleaned_xml)))

XmlTexts == SeqsUpTo(Tokens, MaxTokens)

\* What extract_value_via_iteration is called on.
ValueTexts == {<<>>, <<" ">>, Text1000, Text40000, Text0, TextX, TextNan}
Fields == {NoContainer} \cup {Container(values) : values \in SeqsUpTo(ValueTexts, MaxValues)}

CallsInit ==
    /\ call \in {[NoCall EXCEPT !.fn = "get_form4_urls_from_index", !.response = r] :
                    r \in IndexResponses}
            \cup {[NoCall EXCEPT !.fn = "clean_and_extract_xml", !.xml_text = t] :
                    t \in XmlTexts}
            \cup {[NoCall EXCEPT !.fn = "extract_value_via_iteration", !.field = f] :
                    f \in Fields}
    /\ ret = NoReturn
    /\ file = Missing /\ pre = Missing /\ req = NoRequest /\ resp = NoResponse
    /\ repeated = FALSE
    /\ initStore = Missing /\ handlers = IdleHandlers /\ saved = {}
    /\ filing = NoFiling /\ result = NoResult
    /\ urls = <<>> /\ mainState = NoMain

GetForm4UrlsFromIndex ==
    /\ call.fn = "get_form4_urls_from_index" /\ ret.state = "pending"
    /\ ret' = get_form4_urls_from_index(call.response)
    /\ UNCHANGED <<call, file, pre, req, resp, repeated, initStore, handlers, saved,
                   filing, result, urls, mainState>>

CleanAndExtractXml ==
    /\ call.fn = "clean_and_extract_xml" /\ ret.state = "pending"
    /\ ret' = clean_and_extract_xml(call.xml_text)
    /\ UNCHANGED <<call, file, pre, req, resp, repeated, initStore, handlers, saved,
                   filing, result, urls, mainState>>

ExtractValueViaIteration ==
    /\ call.fn = "extract_value_via_iteration" /\ ret.state = "pending"
    /\ ret' = CallReturned(extract_value_via_iteration(call.field))
    /\ UNCHANGED <<call, file, pre, req, resp, repeated, initStore, handlers, saved,
                   filing, result, urls, mainState>>

CallsNext == GetForm4UrlsFromIndex \/ CleanAndExtractXml \/ ExtractValueViaIteration

SpecCalls == CallsInit /\ [][CallsNext]_vars

----
(***************************************************************************)
(* Claims about the store under Spec.                                      *)
(***************************************************************************)
Stored(f) == Range(load_data(f))
RecordsFor(trades, k) == SelectSeq(trades, LAMBDA t : unique_key(t) = k)
Uploaded == req.op = "upload" /\ resp.status = 200

\* C1: merge is idempotent.  A successful upload that repeats the successful
\* upload before it (the same 'trades' list) leaves the persisted records, as
\* a set, as the first upload left them.
C1_MergeIdempotent ==
    (Uploaded /\ repeated) => Stored(file) = Stored(pre)

\* The second upload of C1 has happened, of a list that is not empty and
\* that holds a record differing from the stored record of its key.
C1_Witness ==
    /\ Uploaded /\ repeated
    /\ \E i \in 1..Len(req.body.trades) : req.body.trades[i] \notin Stored(file)

\* C2: first occurrence wins.  After a successful upload, every dedup key of
\* the store before it has exactly one stored record, and that record is the
\* first record of that key in the store before, equal in every field.
C2_FirstOccurrenceWins ==
    Uploaded =>
        \A i \in 1..Len(load_data(pre)) :
            LET k == unique_key(load_data(pre)[i])
            IN  RecordsFor(load_data(file), k) = <<Head(RecordsFor(load_data(pre), k))>>

\* The case of C2: the uploaded list held a record with the key of a stored
\* record and other field values.
C2_Witness ==
    /\ Uploaded
    /\ \E i \in 1..Len(load_data(pre)), j \in 1..Len(req.body.trades) :
          /\ unique_key(load_data(pre)[i]) = unique_key(req.body.trades[j])
          /\ load_data(pre)[i] # req.body.trades[j]

KeyMismatch == req.op \in {"upload", "clean"} /\ req.key # DASHBOARD_API_KEY
JsonBody(body) == body.kind \notin {"nonjson", "badjson"}

\* C10 as claimed: a request whose key is not the configured one is answered
\* 403 with a message and leaves the store unchanged, whatever its payload.
C10_Original ==
    KeyMismatch => (resp.status = 403 /\ resp.message # "" /\ file = pre)

\* C10 as amended: a request whose key is not the configured one leaves the
\* store unchanged; a cleanup, and an upload whose body is JSON, is answered
\* 403 with a message; an upload whose body is not JSON is answered 400.
C10_KeyMismatchRejected ==
    KeyMismatch =>
        /\ file = pre
        /\ resp.message # ""
        /\ resp.status = IF req.op = "upload" /\ ~JsonBody(req.body) THEN 400 ELSE 403

\* The case of C10: an upload of trades with a wrong key against a store that
\* holds records, answered 403.
C10_Witness ==
    /\ KeyMismatch /\ req.op = "upload" /\ resp.status = 403
    /\ req.body.kind = "list" /\ req.body.trades # <<>>
    /\ load_data(pre) # <<>>

Malformed(body) ==
    \/ body.kind \in {"nonjson", "badjson", "notobject", "tradesnotlist"}
    \/ \E i \in 1..Len(body.trades) : ~IsRecord(body.trades[i])

\* C11: every malformed upload body (not JSON, JSON that is no object,
\* 'trades' that is no list, a 'trades' list with an element that is no
\* record) sent with the configured key is rejected with status 400 and a
\* message, and the store is left unchanged.
C11_MalformedRejected ==
    (req.op = "upload" /\ req.key = DASHBOARD_API_KEY /\ Malformed(req.body)) =>
        /\ resp.status = 400
        /\ resp.message # ""
        /\ file = pre

Cleaned == req.op = "clean" /\ req.key = DASHBOARD_API_KEY

\* C12: an authenticated cleanup leaves the store with the contents a merge
\* of the store with no new input gives, and a cleanup that follows a
\* cleanup leaves the store as it was.
C12_CleanupIdempotent ==
    Cleaned =>
        /\ resp.status = 200
        /\ load_data(file) = deduplicate_trades(load_data(pre)).out
        /\ load_data(file) = load_data(upload_trades(pre, DASHBOARD_API_KEY,
                                  [kind |-> "list", trades |-> <<>>]).file)
        /\ repeated => file = pre

\* The case of C12: a cleanup of a store that held several records of one
\* key has removed the later ones.
C12_Witness ==
    /\ Cleaned
    /\ Len(load_data(file)) < Len(load_data(pre))
    /\ load_data(file) # <<>>

\* The second cleanup of C12 has happened on a store that holds records.
C12_WitnessRepeated ==
    /\ Cleaned /\ repeated
    /\ load_data(file) # <<>>

KeySeq(trades) == [i \in 1..Len(trades) |-> unique_key(trades[i])]
Wrote == Uploaded \/ (Cleaned /\ load_data(pre) # <<>>)

\* C21: after every successful upload, and after every cleanup that writes,
\* no two records of the store have the same dedup key.
C21_NoDuplicateKeys ==
    Wrote =>
        /\ file.state = "json"
        /\ \A i, j \in 1..Len(load_data(file)) :
              unique_key(load_data(file)[i]) = unique_key(load_data(file)[j]) => i = j

\* The case of C21: an upload of a list with a record of a stored key has
\* succeeded on a store that held two records of one key.
C21_Witness ==
    /\ Uploaded
    /\ \E i, j \in 1..Len(load_data(pre)) :
          i # j /\ unique_key(load_data(pre)[i]) = unique_key(load_data(pre)[j])
    /\ \E i \in 1..Len(req.body.trades) :
          unique_key(req.body.trades[i]) \in Range(KeySeq(load_data(pre)))

\* What the last request brought to the store: the store before it and,
\* for an upload, the uploaded list after it.
Combined == load_data(pre) \o (IF req.op = "upload" THEN req.body.trades ELSE <<>>)
FirstPlace(k) ==
    CHOOSE i \in 1..Len(Combined) :
        /\ unique_key(Combined[i]) = k
        /\ \A j \in 1..(i - 1) : unique_key(Combined[j]) # k

\* C22: no dedup key is dropped.  After a successful upload the keys of the
\* store are those of the store before and of the uploaded list; after an
\* authenticated cleanup they are those of the store before; and the
\* records are in the order in which their keys first occur in the store
\* before followed by the uploaded list.
C22_NoKeyDropped ==
    (Uploaded \/ Cleaned) =>
        LET after == KeySeq(load_data(file))
        IN  /\ Range(after) = Range(KeySeq(Combined))
            /\ \A a, b \in 1..Len(after) : a < b => FirstPlace(after[a]) < FirstPlace(after[b])

\* The case of C22: an upload has brought a new key to a store that held
\* records, in a list that also held a stored key before the new one.
C22_Witness ==
    /\ Uploaded
    /\ load_data(pre) # <<>>
    /\ \E i, j \in 1..Len(req.body.trades) :
          /\ i < j
          /\ unique_key(req.body.trades[i]) \in Range(KeySeq(load_data(pre)))
          /\ unique_key(req.body.trades[j]) \notin Range(KeySeq(load_data(pre)))

----
(***************************************************************************)
(* Claims about the store under SpecConc.                                  *)
(***************************************************************************)
KeysOf(trades) == {unique_key(trades[i]) : i \in 1..Len(trades)}
BothUploaded ==
    \A r \in Requests :
        handlers[r].pc = "done" /\ handlers[r].op = "upload" /\ handlers[r].status = 200

\* C3: no update is lost.  When two overlapping uploads have both completed,
\* the store holds a record for every dedup key of the store before them
\* and of both uploaded lists.
C3_NoLostUpdate ==
    BothUploaded =>
        (KeysOf(load_data(initStore)) \cup KeysOf(handlers["r1"].body.trades)
            \cup KeysOf(handlers["r2"].body.trades)) \subseteq KeysOf(load_data(file))

\* C4: the persisted set is replaced as a whole.  Every load_data of a
\* request returns an array that DATA_FILE held before, or that a save under
\* way is giving it (torn: it returned something else).
C4_NoTornLoad ==
    \A r \in Requests : ~handlers[r].torn

----
(***************************************************************************)
(* Claims about parse_form4_url under SpecParse.                           *)
(***************************************************************************)
Parsed == result.state # "pending"
CodeOf(i) == Upper(Strip(filing.transactions[i].code))

\* C5: parse_form4_url raises nothing past its boundary, and whenever a step
\* for the filing fails the result it returns is the empty list.
C5_FailureGivesEmptyResult ==
    Parsed => /\ result.state = "returned"
              /\ (result.error # "none" => result.trades = <<>>)

\* C7: every trade of a result has a code in {P, S, M, X, V}, and there are
\* no more trades than transactions with such a code.
C7_OnlyTargetCodes ==
    Parsed =>
        /\ \A i \in 1..Len(result.trades) :
              result.trades[i].code \in {<<"P">>, <<"S">>, <<"M">>, <<"X">>, <<"V">>}
        /\ Len(result.trades) <=
              Cardinality({i \in 1..Len(filing.transactions) :
                  CodeOf(i) \in {<<"P">>, <<"S">>, <<"M">>, <<"X">>, <<"V">>}})

\* The case of C7: a filing with a transaction of another code (here after
\* upper-casing A, or no code at all) and a transaction that became a trade.
C7_Witness ==
    /\ Parsed /\ result.trades # <<>>
    /\ \E i \in 1..Len(filing.transactions) : CodeOf(i) = <<"A">>

\* C8: a trade of a result is a value trade exactly when its code is P or S;
\* every value trade has value >= MIN_TRADE_VALUE; and the threshold is not
\* applied to the others: when the filing was read to its end, every
\* transaction with code M, X or V whose shares are not 0.0 is a trade.
C8_ValueThreshold ==
    Parsed =>
        /\ \A i \in 1..Len(result.trades) :
              LET t == result.trades[i]
              IN  /\ t.is_value_trade <=> t.code \in {<<"P">>, <<"S">>}
                  /\ t.is_value_trade => (t.value.k = "float" /\ t.value.n >= 1000000)
        /\ (filing.fault = "none" /\ result.error = "none") =>
              Cardinality({i \in 1..Len(result.trades) : ~result.trades[i].is_value_trade})
              = Cardinality({i \in 1..Len(filing.transactions) :
                    /\ CodeOf(i) \in {<<"M">>, <<"X">>, <<"V">>}
                    /\ ~IsZero(extract_value_via_iteration(filing.transactions[i].shares))})

\* The case of C8: a result with a value trade at the threshold and a trade
\* that is no value trade and has a value below it.
C8_Witness ==
    /\ Parsed
    /\ \E i, j \in 1..Len(result.trades) :
          /\ result.trades[i].is_value_trade
          /\ result.trades[i].value = Float(1000000)
          /\ ~result.trades[j].is_value_trade
          /\ result.trades[j].value = Float(25000)

\* C9: a transaction with code M, X or V, shares that are not 0.0 and no
\* transactionPricePerShare element is in the result of its filing, as a
\* trade with price 0.0, value 0.0 and is_value_trade false.
C9_NoPriceNonCashRetained ==
    (Parsed /\ filing.fault = "none") =>
        \A i \in 1..Len(filing.transactions) :
            LET shares == extract_value_via_iteration(filing.transactions[i].shares)
            IN  (/\ CodeOf(i) \in {<<"M">>, <<"X">>, <<"V">>}
                 /\ shares.k = "float" /\ shares.n # 0
                 /\ ~filing.transactions[i].price.present)
                => \E j \in 1..Len(result.trades) :
                      LET t == result.trades[j]
                      IN  /\ t.code = CodeOf(i) /\ t.shares = shares
                          /\ t.price = Float(0) /\ t.value = Float(0)
                          /\ ~t.is_value_trade

\* x == y of Python on numbers: nan equals nothing, itself included.
PyEq(x, y) == x.k = "float" /\ y.k = "float" /\ x.n = y.n

\* C16: in every trade of a result, value == shares * price for the shares
\* and the price of that trade.
C16_ValueIsProduct ==
    Parsed =>
        \A i \in 1..Len(result.trades) :
            LET t == result.trades[i]
                product == Multiply(t.shares, t.price)
            IN  ~product.raised /\ PyEq(t.value, product.value)

WithText(tag) == SelectSeq(filing.metadata, LAMBDA e : e.tag = tag /\ e.text # <<>>)

\* C19: when the filing has elements with text for a metadata tag, every
\* trade of its result carries the text of the first of them in document
\* order (stripped; the ticker upper-cased).
C19_FirstMetadataWins ==
    Parsed =>
        \A i \in 1..Len(result.trades) :
            LET t == result.trades[i]
            IN  /\ WithText("issuerName") # <<>> =>
                      t.company_name = Strip(WithText("issuerName")[1].text)
                /\ WithText("issuerTradingSymbol") # <<>> =>
                      t.ticker = Upper(Strip(WithText("issuerTradingSymbol")[1].text))
                /\ WithText("rptOwnerName") # <<>> =>
                      t.filer = Strip(WithText("rptOwnerName")[1].text)
                /\ WithText("rptOwnerTitle") # <<>> =>
                      t.person_title = Strip(WithText("rptOwnerTitle")[1].text)

----
(***************************************************************************)
(* Claims about main under SpecMainFair.                                   *)
(***************************************************************************)
RECURSIVE TradesOfFilings(_, _)
TradesOfFilings(list, i) ==
    IF i > Len(list) THEN <<>>
    ELSE parse_form4_url(list[i]).trades \o TradesOfFilings(list, i + 1)

Failing(f) == parse_form4_url(f).error # "none"

ValueTrades(trades) == SelectSeq(trades, LAMBDA t : t.is_value_trade)
MegaTrades(trades) ==
    SelectSeq(trades, LAMBDA t : /\ t.is_value_trade
                                 /\ t.value.k = "float" /\ t.value.n >= 10000000)
RECURSIVE SumOfValues(_)
SumOfValues(trades) ==
    IF trades = <<>> THEN 0 ELSE Head(trades).value.n + SumOfValues(Tail(trades))

\* C15: for the batch main has accumulated, the count of each code is the
\* number of trades with that code; total_value_all is the sum of the values
\* of the value trades; mega_trade_count and mega_trade_total_value are the
\* number and the value sum of the value trades of at least
\* MEGA_TRADE_THRESHOLD; and the summary of the upload carries these two.
C15_AggregatesMatchBatch ==
    LET batch == mainState.all_trades
        counts == mainState.transaction_code_counts
    IN  /\ \A x \in 1..Len(counts) :
              /\ counts[x][2] =
                    Cardinality({i \in 1..Len(batch) : batch[i].code = counts[x][1]})
              /\ \A y \in 1..Len(counts) : counts[x][1] = counts[y][1] => x = y
        /\ \A i \in 1..Len(batch) : \E x \in 1..Len(counts) : counts[x][1] = batch[i].code
        /\ mainState.total_trades_count_all = Len(batch)
        /\ mainState.total_value_all = SumOfValues(ValueTrades(batch))
        /\ mainState.mega_trade_count = Len(MegaTrades(batch))
        /\ mainState.mega_trade_total_value = SumOfValues(MegaTrades(batch))
        /\ mainState.pc = "done" =>
              /\ mainState.uploaded[1].trades = batch
              /\ mainState.uploaded[1].summary.mega_trade_count = Len(MegaTrades(batch))
              /\ mainState.uploaded[1].summary.mega_trade_total_value =
                    SumOfValues(MegaTrades(batch))

\* The case of C15: an uploaded batch with a mega trade, a value trade below
\* MEGA_TRADE_THRESHOLD and a trade of at least MEGA_TRADE_THRESHOLD that is
\* no value trade.
C15_Witness ==
    /\ mainState.pc = "done"
    /\ \E i, j, k \in 1..Len(mainState.all_trades) :
          LET t == mainState.all_trades
          IN  /\ t[i].is_value_trade /\ t[i].value.n >= 10000000
              /\ t[j].is_value_trade /\ t[j].value.n < 10000000
              /\ ~t[k].is_value_trade /\ t[k].value.k = "float" /\ t[k].value.n >= 10000000

\* C6: failures of filings are isolated.  The run reaches the upload; and
\* when it is there the parser has been called on every URL of the index
\* once, in index order, and the batch holds the trades of every filing, in
\* that order.
C6_FailuresIsolated ==
    /\ [](mainState.pc \in {"upload", "done"} =>
            /\ mainState.parsed = [i \in 1..Len(mainState.urls) |-> i]
            /\ mainState.all_trades = TradesOfFilings(mainState.urls, 1))
    /\ <>(mainState.pc = "done" /\ mainState.uploaded # <<>>)

\* The case of C6: a batch was uploaded that holds trades of a filing that
\* came after a failing one.
C6_Witness ==
    /\ mainState.pc = "done"
    /\ Len(mainState.urls) = 2
    /\ Failing(mainState.urls[1]) /\ ~Failing(mainState.urls[2])
    /\ mainState.uploaded[1].trades # <<>>
    /\ mainState.uploaded[1].trades = parse_form4_url(mainState.urls[2]).trades

----
(***************************************************************************)
(* Claims about single calls under SpecCalls.                              *)
(***************************************************************************)
Called(fn) == call.fn = fn /\ ret.state # "pending"

\* C13: when the download of the index fails, with a 404, with another HTTP
\* error status or with a network failure, get_form4_urls_from_index raises
\* nothing and returns the empty list.
C13_IndexFailureGivesEmptyList ==
    (Called("get_form4_urls_from_index") /\ call.response.exception # "none") =>
        ret = CallReturned(<<>>)

\* The case of C13: the download failed with a network failure (there is no
\* response), and the call has returned.
C13_Witness ==
    /\ Called("get_form4_urls_from_index")
    /\ call.response.exception = "ConnectionError"
    /\ ret.state = "returned"

Fields5(line) == split(line, 1, <<>>)
Qualifies(line) == Len(Fields5(line)) >= 5 /\ Fields5(line)[3] = <<"4">>

\* C14: from an index that was downloaded, get_form4_urls_from_index returns
\* one URL, made of the 5th field, for each line that has at least 5 fields
\* and whose 3rd field is '4', in the order of the lines, and nothing else.
C14_OneUrlPerForm4Record ==
    (Called("get_form4_urls_from_index") /\ call.response.exception = "none") =>
        LET relevant == SelectSeq(call.response.lines, Qualifies)
        IN  ret = CallReturned([i \in 1..Len(relevant) |-> FullUrl(Fields5(relevant[i])[5])])

\* C18: extract_value_via_iteration raises nothing; it returns 0.0 when the
\* container is absent, when no 'value' descendant of it has text, and when
\* the text is no number; otherwise the number the text, without commas,
\* stands for.
C18_LookupGivesZeroOrDecimal ==
    Called("extract_value_via_iteration") =>
        LET texts == SelectSeq(call.field.values, LAMBDA text : text # <<>>)
            number == float(Strip(RemoveCommas(Strip(texts[1]))))
        IN  /\ ret.state = "returned"
            /\ ret.value = IF ~call.field.present \/ texts = <<>> THEN Float(0)
                           ELSE IF number.raised THEN Float(0)
                           ELSE number.value

\* C20: clean_and_extract_xml fails with ValueError on a text without the
\* opening marker; on any other text it returns the text from the first
\* opening marker to the end of the first closing marker after it, or to
\* the end of the text when no closing marker follows (declarations removed
\* and blanks stripped, as lines 156-158 do).
C20_ExtractsFirstDocument ==
    Called("clean_and_extract_xml") =>
        LET text == call.xml_text
            start == search(START_TAG, text)
            closing == {i \in (start + 1)..Len(text) : LowerToken(text[i]) = END_TAG}
            end == IF closing = {} THEN Len(text)
                   ELSE CHOOSE i \in closing : \A j \in closing : i <= j
        IN  IF start = 0 THEN ret = CallRaised("ValueError")
            ELSE ret = CallReturned(Strip(RemoveDeclarations(SubSeq(text, start, end))))

----
(***************************************************************************)
(* Claims about the requests of main under SpecMainFair.                   *)
(***************************************************************************)
\* C17: filings are requested one at a time, each request after the delay.
\* Every download of a filing comes right after a sleep of REQUEST_DELAY
\* for that filing, and the download before it has ended (with a response
\* or an exception) before it starts.
C17_OneAtATimeAfterDelay ==
    LET ev == mainState.events
    IN  \A k \in 1..Len(ev) :
            ev[k].kind = "get" =>
                /\ k > 1
                /\ ev[k - 1] = Event("sleep", ev[k].filing, 15)
                /\ \A l \in 1..(k - 1) :
                      ev[l].kind = "get" =>
                          \E e \in (l + 1)..(k - 1) :
                              /\ ev[e].kind \in {"response", "failed"}
                              /\ ev[e].filing = ev[l].filing

\* The case of C17: a run that downloaded two filings, the first download
\* having failed.
C17_Witness ==
    /\ mainState.pc = "done"
    /\ Cardinality({k \in 1..Len(mainState.events) : mainState.events[k].kind = "get"}) = 2
    /\ \E k \in 1..Len(mainState.events) :
          mainState.events[k] = Event("failed", 1, 0)

====
